---------------------------- MODULE Spec2Model ----------------------------
(***************************************************************************)
(* Cart, inventory and order conversion of the e-commerce API.             *)
(*                                                                         *)
(* The persisted state is the relational store (products, carts, cart      *)
(* items, orders).  Every request runs in its own AsyncSession             *)
(* (database/core.py get_session): cart and catalogue handlers are         *)
(* modelled as one step each; create_order is split at its database        *)
(* awaits (cart load, one product read per cart line, commit) because the  *)
(* claims about concurrent checkouts depend on how those interleave.       *)
(* Money is counted in whole units; uuid4() is a choice of any unused id.  *)
(***************************************************************************)
EXTENDS Integers, Sequences, FiniteSets, TLC

\* ------------------------------------------------------------ bounds
MaxUUID   == 2      \* size of the id space that cart ids are drawn from
MaxStock  == 1      \* largest stock the catalogue sets
MaxPrice  == 2      \* largest price the catalogue sets
MaxQty    == 2      \* largest quantity a request asks for or a line accumulates
MaxItems  == 2      \* cart_items rows that exist at one time
MaxOrders == 2      \* orders rows
MaxJti    == 4    \* tokens issued in one behaviour

Users    == {1, 2}          \* ids of the registered users
Procs    == {1, 2}          \* sessions that run create_order side by side
UUIDs    == 1..MaxUUID
Products == {"P", "Q"}
ItemIds  == 1..MaxItems
OrderIds == 1..MaxOrders
Prices   == 1..MaxPrice
Stocks   == 0..MaxStock
Qtys     == 1..MaxQty
JtiIds   == 1..MaxJti

None     == 0       \* Python None / no row
Unread   == -1      \* product not in the session's identity map
Unset    == -2      \* a field a ProductUpdate request leaves out

\* addresses 1, 2 and 4 exist: 1 and 4 belong to user 1, 2 to user 2;
\* 3 has no row
AddressIds  == {1, 2, 3, 4}
AddressRows == {1, 2, 4}
AddressUser(a) == IF a = 4 THEN 1 ELSE a
\* each user's first address, and the id without a row
FirstAddressIds == {1, 2, 3}

OrderStatus == {"pending", "paid", "shipped", "delivered", "cancelled"}

VARIABLES
    stock,       \* products.stock  : [Products -> Int]
    price,       \* products.price  : [Products -> Prices]
    carts,       \* carts rows      : set of [id, user_id, total_amount]
    cart_items,  \* cart_items rows : set of [id, cart_id, product_id, quantity, unit_price, subtotal]
    orders,      \* orders rows with their order_items, in creation order
    pc,          \* per session: "idle"; inside a handler, between two of its
                 \* awaits: "loop" (create_order), "insert_cart", "add_item";
                 \* or how its request ended: "ok", "InsufficientStock",
                 \* "NotFound", "NotFoundAddress", "created", "IntegrityError",
                 \* "added"
    sess,        \* per session: the objects its create_order holds (held)
    last,        \* outcome of the latest one-step handler
    users,       \* users rows     : set of [id, email, password_hash]
    tokens,      \* the JWTs issued so far : set of [jti, sub, refresh]
    token_blocklist  \* the in-process set of revoked jti

vars == <<stock, price, carts, cart_items, orders, pc, sess, last,
          users, tokens, token_blocklist>>

\* ------------------------------------------------------------ helpers
RECURSIVE SumSubtotals(_)
\* sum(item.subtotal for item in items)
SumSubtotals(s) ==
    IF s = <<>> THEN 0 ELSE Head(s).subtotal + SumSubtotals(Tail(s))

RECURSIVE SetToSeqById(_)
\* rows of a relationship in primary-key order
SetToSeqById(S) ==
    IF S = {} THEN <<>>
    ELSE LET m == CHOOSE x \in S : \A y \in S : x.id <= y.id
         IN <<m>> \o SetToSeqById(S \ {m})

HasCart(u) == \E c \in carts : c.user_id = u

\* select(Cart).where(Cart.user_id == user_id).first(), when there is a row
CartOfUser(u) == CHOOSE c \in carts : c.user_id = u

\* cart.items
ItemsOfCart(cid) == {i \in cart_items : i.cart_id = cid}

ItemsOfUser(u) ==
    IF HasCart(u) THEN ItemsOfCart(CartOfUser(u).id) ELSE {}

FreeCartIds == UUIDs \ {c.id : c \in carts}
FreeItemIds == ItemIds \ {i.id : i \in cart_items}

\* Cart(user_id=user_id): total_amount takes its default
NewCart(cid, u) == [id |-> cid, user_id |-> u, total_amount |-> 0]

\* db.get(Cart, user_id): a primary-key lookup in the carts table
CartPkExists(u) == \E c \in carts : c.id = u

\* the subtotal without the quantity
Subtotal_NoQuantity(unit_price, quantity) == unit_price

\* item.unit_price * item.quantity
Subtotal(unit_price, quantity) == unit_price * quantity

\* .first() of a query without rows
\* ------------------------------------------------------------ passwords
\* A string is a sequence of atoms: a password is <<"pw1">>, and its bcrypt
\* hash under a salt is the marker, the salt and the password's atoms.
Emails    == {"a@x", "b@x", "c@x"}
Passwords == {<<"pw1">>, <<"pw2">>}
Salts     == {"s1", "s2"}

\* passwd_context.hash(password), salt being the salt bcrypt draws
get_password_hash(password, salt) == <<"$2b$", salt>> \o password

\* passwd_context.verify(password, hashed_password): the password is hashed
\* again under the salt of hashed_password and the two hashes are compared
verify_password(password, hashed_password) ==
    hashed_password = get_password_hash(password, hashed_password[2])

\* the users rows init_db leaves behind (create_admin, seed_users)
seed_users ==
    {[id |-> 1, email |-> "a@x",
      password_hash |-> get_password_hash(<<"pw1">>, "s1")],
     [id |-> 2, email |-> "b@x",
      password_hash |-> get_password_hash(<<"pw2">>, "s1")]}

NoLine == [id |-> None]

\* data_billing is data.billing_address_id of the OrderCreate request; item is
\* the CartItem object add_item holds between its select and its commit
IdleSess == [user |-> None, items |-> <<>>, total |-> 0, i |-> 0,
             local |-> [x \in Products |-> Unread], order_items |-> <<>>,
             shipping |-> None, billing |-> None, data_billing |-> None,
             order |-> None, peers |-> {}, item |-> NoLine]

NoLast == [op |-> "none", result |-> "none", value |-> 0]

\* ------------------------------------------------------------ initial state
Init ==
    /\ stock \in [Products -> Stocks]
    /\ price = [x \in Products |-> IF x = "P" THEN 1 ELSE MaxPrice]
    /\ carts = {}
    /\ cart_items = {}
    /\ orders = <<>>
    /\ pc = [p \in Procs |-> "idle"]
    /\ sess = [p \in Procs |-> IdleSess]
    /\ last = NoLast
    /\ users = seed_users
    /\ tokens = {}
    /\ token_blocklist = {}

\* ------------------------------------------------------------ carts
\* src/carts/service.py get_or_create_cart: the earlier service, which the
\* same store was populated through; it creates the cart without any check
get_or_create_cart(u) ==
    /\ ~HasCart(u)
    /\ \E cid \in FreeCartIds : carts' = carts \cup {NewCart(cid, u)}
    /\ last' = [op |-> "get_or_create_cart", result |-> "ok", value |-> 0]
    /\ UNCHANGED <<stock, price, cart_items, orders, pc, sess, users, tokens, token_blocklist>>

\* modules/carts/service.py _get_or_create_cart, first half: the handler goes
\* on only when db.get(Cart, user_id) finds a row
GetOrCreateFound(u) == CartPkExists(u)

\* _get_or_create_cart, second half: the carts table after it committed,
\* cid being the uuid4() of a cart it had to create
CartsAfterGetOrCreate(u, cid) ==
    IF HasCart(u) THEN carts ELSE carts \cup {NewCart(cid, u)}

\* the cart row _get_or_create_cart returns
CartIn(cs, u) == CHOOSE c \in cs : c.user_id = u

\* the ids uuid4() may give the cart (any one when none is needed)
CartIdChoices(u) == IF HasCart(u) THEN {None} ELSE FreeCartIds

Outcome(op, result, value) ==
    [op |-> op, result |-> result, value |-> value]

\* every handler that starts with _get_or_create_cart and finds no row
NotFoundUser(op, u) ==
    /\ ~GetOrCreateFound(u)
    /\ last' = Outcome(op, "NotFound", 0)
    /\ UNCHANGED <<stock, price, carts, cart_items, orders, pc, sess, users, tokens, token_blocklist>>

\* CartService.get_cart: total_amount is computed from the lines on every read
CartReadTotal(cid) == SumSubtotals(SetToSeqById(ItemsOfCart(cid)))

get_cart(u) ==
    \/ NotFoundUser("get_cart", u)
    \/ /\ GetOrCreateFound(u)
       /\ \E cid \in CartIdChoices(u) :
            /\ carts' = CartsAfterGetOrCreate(u, cid)
            /\ last' = Outcome("get_cart", "ok",
                               CartReadTotal(CartIn(carts', u).id))
       /\ UNCHANGED <<stock, price, cart_items, orders, pc, sess, users, tokens, token_blocklist>>

\* select(CartItem).where(cart_id == cart.id, product_id == ...).first()
LineOfProduct(cid, prod) ==
    LET S == {i \in cart_items : i.cart_id = cid /\ i.product_id = prod}
    IN IF S = {} THEN NoLine ELSE CHOOSE x \in S : \A y \in S : x.id <= y.id

\* select(CartItem).where(CartItem.id == item_id, cart_id == cart.id).first()
LineById(cid, item_id) ==
    LET S == {i \in cart_items : i.cart_id = cid /\ i.id = item_id}
    IN IF S = {} THEN NoLine ELSE CHOOSE x \in S : TRUE

\* add_item, existing line: quantity += data.quantity, subtotal recomputed
AddedLine(item, quantity) ==
    [item EXCEPT !.quantity = item.quantity + quantity,
                 !.subtotal = Subtotal(item.unit_price, item.quantity + quantity)]

\* add_item, new line: the product's current price is the unit price
NewLine(iid, cid, prod, quantity, product_price) ==
    [id |-> iid, cart_id |-> cid, product_id |-> prod, quantity |-> quantity,
     unit_price |-> product_price,
     subtotal |-> Subtotal(product_price, quantity)]

\* an update that writes the quantity and leaves the subtotal as it was
UpdatedLine_StaleSubtotal(item, quantity) == [item EXCEPT !.quantity = quantity]

\* update_item: quantity replaced, subtotal recomputed
UpdatedLine(item, quantity) ==
    [item EXCEPT !.quantity = quantity,
                 !.subtotal = Subtotal(item.unit_price, quantity)]

\* a variant that takes the quantity out of the stock when the line is added
add_item_Reserving(u, prod, quantity) ==
    \/ NotFoundUser("add_item", u)
    \/ /\ GetOrCreateFound(u)
       /\ \E cid \in CartIdChoices(u) :
            /\ carts' = CartsAfterGetOrCreate(u, cid)
            /\ LET cart == CartIn(carts', u)
                   item == LineOfProduct(cart.id, prod)
               IN  IF prod \notin Products
                   THEN /\ last' = Outcome("add_item", "NotFound", 0)
                        /\ UNCHANGED cart_items
                   ELSE IF quantity > stock[prod]
                   THEN /\ last' = Outcome("add_item", "InsufficientStock", 0)
                        /\ UNCHANGED cart_items
                   ELSE IF item # NoLine
                   THEN /\ item.quantity + quantity <= MaxQty
                        /\ cart_items' = (cart_items \ {item})
                                             \cup {AddedLine(item, quantity)}
                        /\ last' = Outcome("add_item", "ok", 0)
                   ELSE /\ \E iid \in FreeItemIds :
                              /\ \A j \in FreeItemIds : iid <= j
                              /\ cart_items' = cart_items \cup
                                   {NewLine(iid, cart.id, prod, quantity, price[prod])}
                              /\ last' = Outcome("add_item", "ok", 0)
       /\ stock' = IF last'.result = "ok"
                   THEN [stock EXCEPT ![prod] = @ - quantity] ELSE stock
       /\ UNCHANGED <<price, orders, pc, sess, users, tokens, token_blocklist>>

add_item(u, prod, quantity) ==
    \/ NotFoundUser("add_item", u)
    \/ /\ GetOrCreateFound(u)
       /\ \E cid \in CartIdChoices(u) :
            /\ carts' = CartsAfterGetOrCreate(u, cid)
            /\ LET cart == CartIn(carts', u)
                   item == LineOfProduct(cart.id, prod)
               IN  IF prod \notin Products
                   THEN /\ last' = Outcome("add_item", "NotFound", 0)
                        /\ UNCHANGED cart_items
                   ELSE IF quantity > stock[prod]
                   THEN /\ last' = Outcome("add_item", "InsufficientStock", 0)
                        /\ UNCHANGED cart_items
                   ELSE IF item # NoLine
                   THEN /\ item.quantity + quantity <= MaxQty
                        /\ cart_items' = (cart_items \ {item})
                                             \cup {AddedLine(item, quantity)}
                        /\ last' = Outcome("add_item", "ok", 0)
                   ELSE /\ \E iid \in FreeItemIds :
                              /\ \A j \in FreeItemIds : iid <= j
                              /\ cart_items' = cart_items \cup
                                   {NewLine(iid, cart.id, prod, quantity, price[prod])}
                              /\ last' = Outcome("add_item", "ok", 0)
       /\ UNCHANGED <<stock, price, orders, pc, sess, users, tokens, token_blocklist>>

update_item(u, item_id, quantity) ==
    \/ NotFoundUser("update_item", u)
    \/ /\ GetOrCreateFound(u)
       /\ \E cid \in CartIdChoices(u) :
            /\ carts' = CartsAfterGetOrCreate(u, cid)
            /\ LET cart == CartIn(carts', u)
                   item == LineById(cart.id, item_id)
               IN  IF item = NoLine
                   THEN /\ last' = Outcome("update_item", "NotFound", 0)
                        /\ UNCHANGED cart_items
                   ELSE IF quantity = None
                   THEN \* None > int raises TypeError before anything is written
                        /\ last' = Outcome("update_item", "TypeError", 0)
                        /\ UNCHANGED cart_items
                   ELSE IF quantity > stock[item.product_id]
                   THEN /\ last' = Outcome("update_item", "InsufficientStock", 0)
                        /\ UNCHANGED cart_items
                   ELSE /\ cart_items' = (cart_items \ {item})
                                             \cup {UpdatedLine(item, quantity)}
                        /\ last' = Outcome("update_item", "ok", 0)
       /\ UNCHANGED <<stock, price, orders, pc, sess, users, tokens, token_blocklist>>

remove_item(u, item_id) ==
    \/ NotFoundUser("remove_item", u)
    \/ /\ GetOrCreateFound(u)
       /\ \E cid \in CartIdChoices(u) :
            /\ carts' = CartsAfterGetOrCreate(u, cid)
            /\ LET cart == CartIn(carts', u)
                   item == LineById(cart.id, item_id)
               IN  IF ItemsOfCart(cart.id) = {}
                   THEN \* "if not cart.items: return"
                        /\ last' = Outcome("remove_item", "ok", 0)
                        /\ UNCHANGED cart_items
                   ELSE IF item = NoLine
                   THEN /\ last' = Outcome("remove_item", "NotFound", 0)
                        /\ UNCHANGED cart_items
                   ELSE /\ cart_items' = cart_items \ {item}
                        /\ last' = Outcome("remove_item", "ok", 0)
       /\ UNCHANGED <<stock, price, orders, pc, sess, users, tokens, token_blocklist>>

\* a clear that deletes the cart row together with its lines
clear_cart_DeletingCart(u) ==
    /\ HasCart(u)
    /\ carts' = carts \ {CartOfUser(u)}
    /\ cart_items' = cart_items \ ItemsOfUser(u)
    /\ last' = [op |-> "clear_cart", result |-> "ok", value |-> 0]
    /\ UNCHANGED <<stock, price, orders, pc, sess, users, tokens, token_blocklist>>

clear_cart(u) ==
    \/ NotFoundUser("clear_cart", u)
    \/ /\ GetOrCreateFound(u)
       /\ \E cid \in CartIdChoices(u) :
            /\ carts' = CartsAfterGetOrCreate(u, cid)
            /\ cart_items' = cart_items \ ItemsOfCart(CartIn(carts', u).id)
            /\ last' = Outcome("clear_cart", "ok", 0)
       /\ UNCHANGED <<stock, price, orders, pc, sess, users, tokens, token_blocklist>>

\* ------------------------------------------------------------ catalogue
\* order lines that follow the catalogue price instead of keeping their own
Repriced(o, prod, new_price) ==
    [o EXCEPT !.items = [j \in 1..Len(o.items) |->
        IF o.items[j].product_id = prod /\ new_price # Unset
        THEN [o.items[j] EXCEPT !.unit_price = new_price,
                                !.subtotal = new_price * o.items[j].quantity]
        ELSE o.items[j]]]

update_product_Repricing(prod, new_price, new_stock) ==
    /\ new_price # Unset \/ new_stock # Unset
    /\ price' = IF new_price = Unset THEN price
                ELSE [price EXCEPT ![prod] = new_price]
    /\ stock' = IF new_stock = Unset THEN stock
                ELSE [stock EXCEPT ![prod] = new_stock]
    /\ orders' = [k \in 1..Len(orders) |-> Repriced(orders[k], prod, new_price)]
    /\ last' = [op |-> "update_product", result |-> "ok", value |-> 0]
    /\ UNCHANGED <<carts, cart_items, pc, sess, users, tokens, token_blocklist>>

\* ProductService.update_product: setattr for every field the request sets
update_product(prod, new_price, new_stock) ==
    /\ new_price # Unset \/ new_stock # Unset
    /\ price' = IF new_price = Unset THEN price
                ELSE [price EXCEPT ![prod] = new_price]
    /\ stock' = IF new_stock = Unset THEN stock
                ELSE [stock EXCEPT ![prod] = new_stock]
    /\ last' = Outcome("update_product", "ok", 0)
    /\ UNCHANGED <<carts, cart_items, orders, pc, sess, users, tokens, token_blocklist>>

\* ------------------------------------------------------------ orders
\* a lookup by id alone, whoever owns the address
AddressFound_AnyOwner(u, address_id) == address_id \in AddressRows

\* AddressService.get_user_address: the row with this id and this user_id
AddressFound(u, address_id) ==
    address_id \in AddressRows /\ AddressUser(address_id) = u

InFlight == {p \in Procs : pc[p] = "loop"}

\* where a session is while its handler waits for the database
Busy == {"loop", "insert_cart", "add_item"}

\* a request is served by the first session that is not inside a handler
FreeSession(p) == pc[p] \notin Busy /\ \A q \in Procs : q < p => pc[q] \in Busy

\* what a session that starts a request means to the requests that ended
\* before: it is no longer one that ran beside them
ForgetPeer(p) ==
    [q \in Procs |-> [sess[q] EXCEPT !.peers = @ \ {p}]]

\* create_order up to the loop: get_cart and the two address lookups
begin_create_order(p, u, shipping_address_id, billing_address_id) ==
    /\ FreeSession(p)
    /\ Len(orders) + Cardinality(InFlight) < MaxOrders
    /\ UNCHANGED <<stock, price, cart_items, orders, last, users, tokens, token_blocklist>>
    /\ IF ~GetOrCreateFound(u)
       THEN /\ sess' = [ForgetPeer(p) EXCEPT ![p] = [IdleSess EXCEPT !.user = u]]
            /\ pc' = [pc EXCEPT ![p] = "NotFound"]
            /\ UNCHANGED carts
       ELSE \E cid \in CartIdChoices(u) :
            /\ carts' = CartsAfterGetOrCreate(u, cid)
            /\ IF \/ ~AddressFound(u, shipping_address_id)
                  \/ /\ billing_address_id # None
                     /\ ~AddressFound(u, billing_address_id)
               THEN \* "Address with ID ... not found for user ..."
                    /\ sess' = [ForgetPeer(p) EXCEPT
                                   ![p] = [IdleSess EXCEPT !.user = u]]
                    /\ pc' = [pc EXCEPT ![p] = "NotFoundAddress"]
               ELSE LET cart == CartIn(carts', u)
                    IN /\ sess' = [ForgetPeer(p) EXCEPT ![p] =
                              [IdleSess EXCEPT
                                 !.user = u,
                                 !.items = SetToSeqById(ItemsOfCart(cart.id)),
                                 !.total = CartReadTotal(cart.id),
                                 !.i = 1,
                                 !.shipping = shipping_address_id,
                                 !.data_billing = billing_address_id,
                                 !.billing = IF billing_address_id # None
                                             THEN billing_address_id
                                             ELSE shipping_address_id]]
                       /\ pc' = [pc EXCEPT ![p] = "loop"]

\* db.get(Product, id): the session's identity map, else the committed row
Loaded(local, prod) == IF local[prod] = Unread THEN stock[prod] ELSE local[prod]

\* a loop that decrements without comparing
PassesStockCheck_Unchecked(product_stock, quantity) == TRUE

\* "product.stock < item.quantity" raises; otherwise the line passes
PassesStockCheck(product_stock, quantity) == ~(product_stock < quantity)

\* an order line priced from the catalogue at checkout time
OrderItemOf_CurrentPrice(item) ==
    [product_id |-> item.product_id, quantity |-> item.quantity,
     unit_price |-> price[item.product_id],
     subtotal |-> price[item.product_id] * item.quantity]

\* OrderItem(product_id=..., quantity=..., unit_price=..., subtotal=...)
OrderItemOf(item) ==
    [product_id |-> item.product_id, quantity |-> item.quantity,
     unit_price |-> item.unit_price, subtotal |-> item.subtotal]

\* the UPDATE products SET stock = ... a flush emits for every product the
\* session loaded and changed
Flushed(local) ==
    [x \in Products |-> IF local[x] = Unread THEN stock[x] ELSE local[x]]

\* an error path that flushes what the loop changed so far
RolledBack_Flushing(local) == Flushed(local)

\* ConflictError leaves create_order and get_session closes the session
\* without a commit: the products rows stay as committed
RolledBack(local) == stock

\* one turn of the loop of create_order
validate_line(p) ==
    /\ pc[p] = "loop"
    /\ sess[p].i <= Len(sess[p].items)
    /\ LET item == sess[p].items[sess[p].i]
           prod == item.product_id
           v    == Loaded(sess[p].local, prod)
       IN  IF PassesStockCheck(v, item.quantity)
           THEN /\ sess' = [sess EXCEPT
                       ![p].local = [@ EXCEPT ![prod] = v - item.quantity],
                       ![p].order_items = Append(@, OrderItemOf(item)),
                       ![p].i = @ + 1]
                /\ UNCHANGED <<pc, stock>>
           ELSE /\ sess' = [sess EXCEPT ![p] =
                       [IdleSess EXCEPT !.user = sess[p].user, !.i = sess[p].i]]
                /\ pc' = [pc EXCEPT ![p] = "InsufficientStock"]
                /\ stock' = RolledBack(sess[p].local)
    /\ UNCHANGED <<price, carts, cart_items, orders, last, users, tokens, token_blocklist>>

\* an Order built without its total_amount, which then takes the default
NewOrder_DefaultTotal(oid, s) ==
    [id |-> oid, user_id |-> s.user, status |-> "pending",
     total_amount |-> 0, items |-> s.order_items,
     shipping_address_id |-> s.shipping,
     billing_address_id |-> s.billing]

\* an Order that takes its billing address from the request as it came
NewOrder_RequestBilling(oid, s) ==
    [id |-> oid, user_id |-> s.user, status |-> "pending",
     total_amount |-> s.total, items |-> s.order_items,
     shipping_address_id |-> s.shipping,
     billing_address_id |-> s.data_billing]

\* Order(user_id=..., items=order_items, total_amount=cart.total_amount, ...)
NewOrder(oid, s) ==
    [id |-> oid, user_id |-> s.user, status |-> "pending",
     total_amount |-> s.total, items |-> s.order_items,
     shipping_address_id |-> s.shipping,
     billing_address_id |-> s.billing]

\* the cart_items table after create_order committed
CartItemsAfterOrder(u) == cart_items

\* db.add(order); await db.commit()
commit_order(p) ==
    /\ pc[p] = "loop"
    /\ sess[p].i > Len(sess[p].items)
    /\ stock' = Flushed(sess[p].local)
    /\ orders' = Append(orders, NewOrder(Len(orders) + 1, sess[p]))
    /\ cart_items' = CartItemsAfterOrder(sess[p].user)
    /\ sess' = [sess EXCEPT ![p] =
           [IdleSess EXCEPT !.user = sess[p].user, !.local = sess[p].local,
                            !.data_billing = sess[p].data_billing,
                            !.order = Len(orders) + 1,
                            !.peers = InFlight \ {p}]]
    /\ pc' = [pc EXCEPT ![p] = "ok"]
    /\ UNCHANGED <<price, carts, last, users, tokens, token_blocklist>>

\* select(Order).where(Order.id == order_id, Order.user_id == user.id)
OrderFound(u, order_id) ==
    order_id \in 1..Len(orders) /\ orders[order_id].user_id = u

\* a variant that puts the ordered quantities back on cancellation
update_order_status_Restocking(u, order_id, order_status) ==
    /\ IF OrderFound(u, order_id)
       THEN /\ orders' = [orders EXCEPT ![order_id].status = order_status]
            /\ last' = Outcome("update_order_status", "ok", 0)
            /\ stock' = [x \in Products |->
                  IF /\ order_status = "cancelled"
                     /\ \E k \in 1..Len(orders[order_id].items) :
                           orders[order_id].items[k].product_id = x
                  THEN stock[x] + 1 ELSE stock[x]]
       ELSE /\ last' = Outcome("update_order_status", "NotFound", 0)
            /\ UNCHANGED <<orders, stock>>
    /\ UNCHANGED <<price, carts, cart_items, pc, sess, users, tokens, token_blocklist>>

update_order_status(u, order_id, order_status) ==
    /\ IF OrderFound(u, order_id)
       THEN /\ orders' = [orders EXCEPT ![order_id].status = order_status]
            /\ last' = Outcome("update_order_status", "ok", 0)
       ELSE /\ last' = Outcome("update_order_status", "NotFound", 0)
            /\ UNCHANGED orders
    /\ UNCHANGED <<stock, price, carts, cart_items, pc, sess, users, tokens, token_blocklist>>

\* ---------------------------------------- cart handlers, await by await
\* unique=True on Cart.user_id: the INSERT is accepted only when no row of
\* the table has this user_id
UniqueUserId_NoConstraint(cs, u) == TRUE

UniqueUserId(cs, u) == ~\E c \in cs : c.user_id = u

\* src/carts/service.py get_or_create_cart up to "await db.commit()": the
\* select found no cart and Cart(user_id=user_id) is added to the session
begin_get_or_create_cart(p, u) ==
    /\ FreeSession(p)
    /\ ~HasCart(u)
    /\ sess' = [sess EXCEPT ![p] = [IdleSess EXCEPT !.user = u]]
    /\ pc' = [pc EXCEPT ![p] = "insert_cart"]
    /\ UNCHANGED <<stock, price, carts, cart_items, orders, last, users, tokens, token_blocklist>>

\* CartService.get_cart up to the "await db.commit()" of _get_or_create_cart
begin_get_cart(p, u) ==
    /\ FreeSession(p)
    /\ UNCHANGED <<stock, price, carts, cart_items, orders, users, tokens, token_blocklist>>
    /\ IF ~GetOrCreateFound(u)
       THEN /\ last' = Outcome("get_cart", "NotFound", 0)
            /\ UNCHANGED <<pc, sess>>
       ELSE IF HasCart(u)
       THEN /\ last' = Outcome("get_cart", "ok", CartReadTotal(CartOfUser(u).id))
            /\ UNCHANGED <<pc, sess>>
       ELSE /\ sess' = [sess EXCEPT ![p] = [IdleSess EXCEPT !.user = u]]
            /\ pc' = [pc EXCEPT ![p] = "insert_cart"]
            /\ UNCHANGED last

\* "await db.commit()" of a session that added a Cart: the INSERT into carts
commit_insert_cart(p) ==
    /\ pc[p] = "insert_cart"
    /\ IF UniqueUserId(carts, sess[p].user)
       THEN /\ \E cid \in FreeCartIds :
                 carts' = carts \cup {NewCart(cid, sess[p].user)}
            /\ pc' = [pc EXCEPT ![p] = "created"]
       ELSE \* sqlalchemy.exc.IntegrityError, the request ends with it
            /\ pc' = [pc EXCEPT ![p] = "IntegrityError"]
            /\ UNCHANGED carts
    /\ UNCHANGED <<stock, price, cart_items, orders, sess, last, users, tokens, token_blocklist>>

\* CartService.add_item up to its "await db.commit()": the product and the
\* line were read, and the CartItem to write is in the session
begin_add_item(p, u, prod, quantity) ==
    /\ FreeSession(p)
    /\ HasCart(u)       \* the cart exists: its creation is commit_insert_cart
    /\ UNCHANGED <<stock, price, carts, cart_items, orders, users, tokens, token_blocklist>>
    /\ LET cart == CartOfUser(u)
           item == LineOfProduct(cart.id, prod)
       IN  IF ~GetOrCreateFound(u) \/ prod \notin Products
           THEN /\ last' = Outcome("add_item", "NotFound", 0)
                /\ UNCHANGED <<pc, sess>>
           ELSE IF quantity > stock[prod]
           THEN /\ last' = Outcome("add_item", "InsufficientStock", 0)
                /\ UNCHANGED <<pc, sess>>
           ELSE /\ item # NoLine => item.quantity + quantity <= MaxQty
                /\ sess' = [sess EXCEPT ![p] = [IdleSess EXCEPT
                      !.user = u,
                      !.item = IF item # NoLine
                               THEN AddedLine(item, quantity)
                               ELSE NewLine(None, cart.id, prod, quantity,
                                            price[prod])]]
                /\ pc' = [pc EXCEPT ![p] = "add_item"]
                /\ UNCHANGED last

\* "db.add(item); await db.commit()" of add_item: an INSERT for a new
\* CartItem, an UPDATE by primary key for a loaded one
commit_add_item(p) ==
    /\ pc[p] = "add_item"
    /\ LET item == sess[p].item
       IN  IF item.id = None
           THEN \E iid \in FreeItemIds :
                   /\ \A j \in FreeItemIds : iid <= j
                   /\ cart_items' = cart_items \cup {[item EXCEPT !.id = iid]}
           ELSE cart_items' = {i \in cart_items : i.id # item.id} \cup {item}
    /\ pc' = [pc EXCEPT ![p] = "added"]
    /\ UNCHANGED <<stock, price, carts, orders, sess, last, users, tokens, token_blocklist>>

\* ------------------------------------------------------------ users and tokens
\* AuthService._get_user_by_email: the rows select(User).where(email) finds
get_user_by_email_Missing(email) == {}

get_user_by_email(email) == {r \in users : r.email = email}

\* AuthService.register_user. For an email nobody has, the handler builds the
\* User and then awaits db.add(user); AsyncSession.add returns None, so the
\* await raises TypeError before db.commit() and the session is closed
\* without the row.
register_user(email, password) ==
    /\ IF get_user_by_email(email) # {}
       THEN last' = Outcome("register_user", "ConflictError", 0)
       ELSE last' = Outcome("register_user", "TypeError", 0)
    /\ UNCHANGED <<stock, price, carts, cart_items, orders, pc, sess,
                   users, tokens, token_blocklist>>

\* create_token: jti is the uuid4() of the token, refresh its kind
FreeJti == JtiIds \ {t.jti : t \in tokens}

create_token(user_id, jti, refresh) ==
    [jti |-> jti, sub |-> user_id, refresh |-> refresh]

\* AuthService.login and _generate_tokens: an access and a refresh token
login(email, password) ==
    /\ LET found == get_user_by_email(email)
       IN  IF \E user \in found : verify_password(password, user.password_hash)
           THEN \E user \in found, ja \in FreeJti, jr \in FreeJti :
                   /\ ja < jr
                   /\ \A j \in FreeJti : ja <= j
                   /\ \A j \in FreeJti \ {ja} : jr <= j
                   /\ tokens' = tokens \cup {create_token(user.id, ja, FALSE),
                                             create_token(user.id, jr, TRUE)}
                   /\ last' = Outcome("login", "ok", user.id)
           ELSE /\ last' = Outcome("login", "Invalid email or password.", 0)
                /\ UNCHANGED tokens
    /\ UNCHANGED <<stock, price, carts, cart_items, orders, pc, sess,
                   users, token_blocklist>>

\* the messages of the AuthenticationError a token dependency raises
AuthenticationErrors ==
    {"Token has been revoked.", "Access token is required.",
     "Refresh token is required."}

\* AccessTokenBearer.verify_token_data
AccessTokenBearer_Unverified(token_data) == "ok"

AccessTokenBearer(token_data) ==
    IF token_data.refresh THEN "Access token is required." ELSE "ok"

\* RefreshTokenBearer.verify_token_data
RefreshTokenBearer(token_data) ==
    IF ~token_data.refresh THEN "Refresh token is required." ELSE "ok"

\* TokenBearer.__call__ on a token within its lifetime: the blocklist test,
\* then verify_token_data of the subclass (bearer is "access" or "refresh")
TokenBearer_NoBlocklist(bearer, token_data) ==
    IF bearer = "access" THEN AccessTokenBearer(token_data)
    ELSE RefreshTokenBearer(token_data)

TokenBearer(bearer, token_data) ==
    IF token_data.jti \in token_blocklist THEN "Token has been revoked."
    ELSE IF bearer = "access" THEN AccessTokenBearer(token_data)
    ELSE RefreshTokenBearer(token_data)

\* a route that takes token_data: AccessToken and reads (get_my_account)
get_my_account(t) ==
    /\ t \in tokens
    /\ last' = Outcome("get_my_account", TokenBearer("access", t), t.jti)
    /\ UNCHANGED <<stock, price, carts, cart_items, orders, pc, sess,
                   users, tokens, token_blocklist>>

\* GET /refresh, AuthService.refresh_token: a new access token
refresh_token(t) ==
    /\ t \in tokens
    /\ LET res == TokenBearer("refresh", t)
       IN  /\ last' = Outcome("refresh_token", res, t.jti)
           /\ IF res = "ok"
              THEN \E j \in FreeJti :
                      /\ \A k \in FreeJti : j <= k
                      /\ tokens' = tokens \cup {create_token(t.sub, j, FALSE)}
              ELSE UNCHANGED tokens
    /\ UNCHANGED <<stock, price, carts, cart_items, orders, pc, sess,
                   users, token_blocklist>>

\* GET /logout, revoke_token
revoke_token(t) ==
    /\ t \in tokens
    /\ LET res == TokenBearer("access", t)
       IN  /\ last' = Outcome("revoke_token", res, t.jti)
           /\ token_blocklist' =
                 IF res = "ok" THEN token_blocklist \cup {t.jti}
                 ELSE token_blocklist
    /\ UNCHANGED <<stock, price, carts, cart_items, orders, pc, sess,
                   users, tokens>>

\* UserService.change_user_password
change_user_password(user_id, current_password, new_password, new_password_confirm, salt, salt2) ==
    /\ \E user \in users :
          /\ user.id = user_id
          /\ IF ~verify_password(get_password_hash(current_password, salt),
                                  user.password_hash)
             THEN /\ last' = Outcome("change_user_password",
                                      "Invalid password.", user_id)
                  /\ UNCHANGED users
             ELSE IF new_password # new_password_confirm
             THEN /\ last' = Outcome("change_user_password",
                                      "New passwords do not match.", user_id)
                  /\ UNCHANGED users
             ELSE /\ last' = Outcome("change_user_password", "ok", user_id)
                  /\ users' = (users \ {user}) \cup
                        {[user EXCEPT !.password_hash =
                              get_password_hash(new_password, salt2)]}
    /\ UNCHANGED <<stock, price, carts, cart_items, orders, pc, sess,
                   tokens, token_blocklist>>

\* ------------------------------------------------------------ specifications
ProductIds == Products \cup {"X"}    \* "X" is an id without a products row

\* the cart handlers and the catalogue
NextCart ==
    \/ \E u \in Users : get_or_create_cart(u)
    \/ \E u \in Users : get_cart(u)
    \/ \E u \in Users, prod \in ProductIds, q \in Qtys : add_item(u, prod, q)
    \/ \E u \in Users, i \in ItemIds, q \in Qtys \cup {None} : update_item(u, i, q)
    \/ \E u \in Users, i \in ItemIds : remove_item(u, i)
    \/ \E u \in Users : clear_cart(u)
    \/ \E prod \in Products, np \in Prices \cup {Unset}, ns \in Stocks \cup {Unset} :
          update_product(prod, np, ns)

SpecCart == Init /\ [][NextCart]_vars

\* carts being filled and checked out by requests that run side by side
NextCheckout ==
    \/ \E u \in Users : get_or_create_cart(u)
    \/ \E u \in Users, prod \in ProductIds, q \in Qtys : add_item(u, prod, q)
    \/ \E p \in Procs, u \in Users, a \in FirstAddressIds,
          b \in FirstAddressIds \cup {None} :
          begin_create_order(p, u, a, b)
    \/ \E p \in Procs : validate_line(p)
    \/ \E p \in Procs : commit_order(p)

SpecCheckout == Init /\ [][NextCheckout]_vars

\* cart requests of the same or of different users that overlap in time
NextRace ==
    \/ \E p \in Procs, u \in Users : begin_get_or_create_cart(p, u)
    \/ \E p \in Procs, u \in Users : begin_get_cart(p, u)
    \/ \E p \in Procs : commit_insert_cart(p)
    \/ \E p \in Procs, u \in Users, prod \in ProductIds, q \in Qtys :
          begin_add_item(p, u, prod, q)
    \/ \E p \in Procs : commit_add_item(p)

SpecRace == Init /\ [][NextRace]_vars

\* checkouts with every choice of shipping and billing address
NextAddress ==
    \/ \E u \in Users : get_or_create_cart(u)
    \/ \E u \in Users, q \in Qtys : add_item(u, "P", q)
    \/ \E u \in Users, a \in AddressIds, b \in AddressIds \cup {None} :
          begin_create_order(1, u, a, b)
    \/ validate_line(1)
    \/ commit_order(1)

SpecAddress == Init /\ [][NextAddress]_vars

\* orders through their life: one user's cart being changed and checked out,
\* one create_order at a time, the catalogue and the order statuses changing
Next ==
    \/ \E u \in Users : get_or_create_cart(u)
    \/ \E prod \in {"P", "X"}, q \in Qtys : add_item(1, prod, q)
    \/ \E i \in ItemIds, q \in Qtys \cup {None} : update_item(1, i, q)
    \/ clear_cart(1)
    \/ \E np \in Prices \cup {Unset}, ns \in Stocks \cup {Unset} :
          (np = Unset \/ ns = Unset) /\ update_product("P", np, ns)
    \/ \E a \in FirstAddressIds, b \in FirstAddressIds \cup {None} :
          begin_create_order(1, 1, a, b)
    \/ validate_line(1)
    \/ commit_order(1)
    \/ \E u \in Users, o \in OrderIds, st \in OrderStatus :
          update_order_status(u, o, st)

Spec == Init /\ [][Next]_vars

\* the orders of both users, from checkout through their status changes
NextStatus ==
    \/ \E u \in Users : get_or_create_cart(u)
    \/ \E u \in Users, q \in Qtys : add_item(u, "P", q)
    \/ \E u \in Users, a \in FirstAddressIds : begin_create_order(1, u, a, None)
    \/ validate_line(1)
    \/ commit_order(1)
    \/ \E u \in Users, o \in OrderIds, st \in OrderStatus :
          update_order_status(u, o, st)

SpecStatus == Init /\ [][NextStatus]_vars

\* every cart handler next to checkouts, the catalogue left alone
NextStock ==
    \/ \E u \in Users : get_or_create_cart(u)
    \/ \E u \in Users : get_cart(u)
    \/ \E u \in Users, prod \in {"P", "X"}, q \in Qtys : add_item(u, prod, q)
    \/ \E u \in Users, i \in ItemIds, q \in Qtys \cup {None} : update_item(u, i, q)
    \/ \E u \in Users, i \in ItemIds : remove_item(u, i)
    \/ \E u \in Users : clear_cart(u)
    \/ \E u \in Users : begin_create_order(1, u, u, None)
    \/ validate_line(1)
    \/ commit_order(1)

SpecStock == Init /\ [][NextStock]_vars

\* users who fill their cart, check out, and then check out again without
\* adding anything: add_item is called only by users who have no order yet
NextRepeat ==
    \/ \E u \in Users : get_or_create_cart(u)
    \/ \E u \in Users, prod \in Products, q \in Qtys :
          /\ ~\E k \in 1..Len(orders) : orders[k].user_id = u
          /\ add_item(u, prod, q)
    \/ \E u \in Users : begin_create_order(1, u, u, None)
    \/ validate_line(1)
    \/ commit_order(1)

SpecRepeat == Init /\ [][NextRepeat]_vars

\* accounts and tokens: signup, login, refresh, logout, password change and
\* a token-guarded read
NextAuth ==
    \/ \E e \in Emails, pw \in Passwords : register_user(e, pw)
    \/ \E e \in Emails, pw \in Passwords : login(e, pw)
    \/ \E t \in tokens : get_my_account(t)
    \/ \E t \in tokens : refresh_token(t)
    \/ \E t \in tokens : revoke_token(t)
    \/ \E u \in Users, cur \in Passwords, new \in Passwords, cnf \in Passwords,
          s1 \in Salts, s2 \in Salts :
          change_user_password(u, cur, new, cnf, s1, s2)

SpecAuth == Init /\ [][NextAuth]_vars



\* ------------------------------------------------------------ properties
CartSum(cid) == SumSubtotals(SetToSeqById(ItemsOfCart(cid)))

LinesOfOrder(k) == orders[k].items

\* quantity of product x over the lines of a sequence
RECURSIVE QuantityOf(_, _)
QuantityOf(lines, x) ==
    IF lines = <<>> THEN 0
    ELSE (IF Head(lines).product_id = x THEN Head(lines).quantity ELSE 0)
         + QuantityOf(Tail(lines), x)

Committing(p) == pc[p] = "loop" /\ pc'[p] = "ok"

\* C1: in every reachable state, whatever checkouts ran and however their
\* steps interleaved, every product's stock is >= 0.
C1_StockNeverNegative == \A x \in Products : stock[x] >= 0

\* two checkouts that ran side by side both committed and took a product's
\* stock to 0
C1_Witness ==
    \E p \in Procs, x \in Products :
        /\ pc[p] = "ok" /\ sess[p].peers # {}
        /\ \A q \in sess[p].peers : pc[q] = "ok"
        /\ sess[p].local[x] = 0 /\ stock[x] = 0

\* the order of session p is one line asking for 1 unit of x, and the stock
\* the session loaded for x was 1
TookLastUnit(p, x) ==
    /\ pc[p] = "ok"
    /\ Len(LinesOfOrder(sess[p].order)) = 1
    /\ LinesOfOrder(sess[p].order)[1].product_id = x
    /\ LinesOfOrder(sess[p].order)[1].quantity = 1
    /\ sess[p].local[x] = 0

\* C2: when two checkouts of different users run side by side, each asking
\* for the last unit of a product whose stock is 1, exactly one of them
\* succeeds and creates an order (the other fails with InsufficientStock):
\* they never both end with an order.
C2_LastUnitSoldOnce ==
    \A p, q \in Procs, x \in Products :
        ~ ( /\ p # q
            /\ q \in sess[p].peers
            /\ sess[p].user # sess[q].user
            /\ TookLastUnit(p, x)
            /\ TookLastUnit(q, x) )

\* C3: a checkout that fails the stock check on a line leaves the persisted
\* stock of every product, the orders and the cart lines as they were; the
\* lines that passed before it have decremented nothing that is persisted.
C3_FailedCheckoutChangesNothing ==
    [][\A p \in Procs :
          (pc[p] = "loop" /\ pc'[p] # "ok" /\ sess'[p] # sess[p])
              => (stock' = stock /\ orders' = orders /\ cart_items' = cart_items)
      ]_vars

\* a checkout failed on its second line, after its first line had passed
C3_Witness ==
    \E p \in Procs : pc[p] = "InsufficientStock" /\ sess[p].i >= 2

\* C4: a successful checkout creates exactly one order with one order line
\* per cart line (same product_id and quantity), decreases the stock of each
\* product by the quantity of its line and leaves the other stocks alone.
C4_CheckoutEffect ==
    [][\A p \in Procs : Committing(p) =>
          /\ Len(orders') = Len(orders) + 1
          /\ Len(orders'[Len(orders')].items) = Len(sess[p].items)
          /\ \A j \in 1..Len(sess[p].items) :
                /\ orders'[Len(orders')].items[j].product_id
                       = sess[p].items[j].product_id
                /\ orders'[Len(orders')].items[j].quantity
                       = sess[p].items[j].quantity
          /\ \A x \in Products :
                stock'[x] = stock[x] - QuantityOf(sess[p].items, x)
      ]_vars

\* C5: immediately after a successful checkout the user's cart has no line
\* items, the cart row still being there.
C5_CartEmptyAfterCheckout ==
    [][\A p \in Procs : Committing(p) =>
          /\ \E c \in carts' : c.user_id = sess[p].user
          /\ \A i \in cart_items' :
                \A c \in carts' : c.user_id = sess[p].user => i.cart_id # c.id
      ]_vars

\* C6: a checkout of a cart without line items fails with EmptyCart and
\* creates no order: no checkout ends with an order, and no order exists,
\* that has no lines.
C6_EmptyCartRejected ==
    /\ \A p \in Procs : pc[p] = "ok" => LinesOfOrder(sess[p].order) # <<>>
    /\ \A k \in 1..Len(orders) : LinesOfOrder(k) # <<>>

\* C7: every order's total_amount is the sum of the subtotals of its own
\* order lines, which are the subtotals of the cart lines the checkout
\* converted: the total a checkout holds is the sum over the lines it loaded
\* and each order line it built carries the subtotal of its cart line.
C7_OrderTotalIsSumOfLines ==
    /\ \A k \in 1..Len(orders) :
          orders[k].total_amount = SumSubtotals(LinesOfOrder(k))
    /\ \A p \in Procs : pc[p] = "loop" =>
          /\ sess[p].total = SumSubtotals(sess[p].items)
          /\ \A j \in 1..Len(sess[p].order_items) :
                sess[p].order_items[j].subtotal = sess[p].items[j].subtotal

\* an order of two lines with different subtotals
C7_Witness ==
    \E k \in 1..Len(orders) :
        /\ Len(LinesOfOrder(k)) = 2
        /\ LinesOfOrder(k)[1].subtotal # LinesOfOrder(k)[2].subtotal

\* C8: once an order exists, its line items and its total_amount never
\* change, whatever handler runs later (a product price update, a change of
\* the user's cart, a later checkout, an order status update).
C8_OrdersNeverChange ==
    [][\A k \in 1..Len(orders) :
          /\ k <= Len(orders')
          /\ orders'[k].items = orders[k].items
          /\ orders'[k].total_amount = orders[k].total_amount
          /\ orders'[k].user_id = orders[k].user_id
      ]_vars

\* an order whose line keeps a unit price the product no longer has, after a
\* status update and a later checkout
C8_Witness ==
    /\ Len(orders) = 2
    /\ LinesOfOrder(1) # <<>>
    /\ LinesOfOrder(1)[1].unit_price # price[LinesOfOrder(1)[1].product_id]
    /\ orders[1].status # "pending"
    /\ ItemsOfUser(orders[1].user_id) = {}

\* C9: in every reachable state every cart line has
\* subtotal = unit_price * quantity and quantity >= 1.
C9_LineSubtotal ==
    \A i \in cart_items :
        i.subtotal = i.unit_price * i.quantity /\ i.quantity >= 1

\* update_item has just changed a line whose unit price is above 1
C9_Witness ==
    /\ last.op = "update_item" /\ last.result = "ok"
    /\ \E i \in cart_items : i.quantity = 2 /\ i.unit_price = 2

\* C10: after every cart mutation the total_amount stored on the Cart row,
\* and the total_amount get_cart returns, is the sum of the subtotals of the
\* cart's lines.
C10_CartTotal ==
    /\ \A c \in carts : c.total_amount = CartSum(c.id)
    /\ (last.op = "get_cart" /\ last.result = "ok")
          => \E c \in carts : last.value = CartSum(c.id)

\* C11: in every reachable state, whatever add_item calls ran and however
\* they interleaved, a cart holds at most one line per product_id.
C11_OneLinePerProduct ==
    \A i, j \in cart_items :
        (i.cart_id = j.cart_id /\ i.product_id = j.product_id) => i = j

\* quantity the user's cart already holds of a product
InCart(u, prod) ==
    IF ~HasCart(u) THEN 0
    ELSE LET item == LineOfProduct(CartOfUser(u).id, prod)
         IN IF item = NoLine THEN 0 ELSE item.quantity

\* C12: every add_item whose requested quantity plus the quantity already
\* in the cart for that product exceeds the product's stock fails with
\* InsufficientStock and leaves the cart lines unchanged (stated for the
\* calls that get past the lookup of the user).
C12_CumulativeStockCheck ==
    [][\A u \in Users, prod \in Products, q \in Qtys :
          (/\ add_item(u, prod, q)
           /\ GetOrCreateFound(u)
           /\ InCart(u, prod) + q > stock[prod])
              => (last'.result = "InsufficientStock" /\ cart_items' = cart_items)
      ]_vars

\* the line with this id in the user's cart, NoLine when there is none
LineOfUser(u, item_id) ==
    IF HasCart(u) THEN LineById(CartOfUser(u).id, item_id) ELSE NoLine

\* C13: update_item on a line of the user's cart with a quantity above the
\* product's stock fails with InsufficientStock and changes no cart line;
\* with a quantity within the stock it sets the line's quantity to the new
\* value and its subtotal to unit_price * quantity, and changes no other line.
C13_UpdateItem ==
    [][\A u \in Users, item_id \in ItemIds, q \in Qtys :
          LET item == LineOfUser(u, item_id)
          IN  (update_item(u, item_id, q) /\ item # NoLine) =>
                 IF q > stock[item.product_id]
                 THEN /\ last'.result = "InsufficientStock"
                      /\ cart_items' = cart_items
                 ELSE /\ last'.result = "ok"
                      /\ cart_items' = (cart_items \ {item}) \cup
                            {[item EXCEPT !.quantity = q,
                                          !.subtotal = item.unit_price * q]}
      ]_vars

\* an update_item was refused for lack of stock and the line is still there
C13_Witness ==
    /\ last.op = "update_item"
    /\ last.result = "InsufficientStock"
    /\ \E i \in cart_items : i.quantity <= stock[i.product_id]

\* C14: in every reachable state there is at most one cart per user_id, also
\* when two get-or-create calls for the same user without a cart overlap.
C14_OneCartPerUser ==
    \A c, d \in carts : c.user_id = d.user_id => c = d

\* two get-or-create calls of one user overlapped: one created the cart, the
\* INSERT of the other was refused
C14_Witness ==
    \E p, q \in Procs :
        /\ pc[p] = "created" /\ pc[q] = "IntegrityError"
        /\ sess[p].user = sess[q].user
        /\ HasCart(sess[p].user)

\* a cart access or mutation by user u
CartCall(u) ==
    \/ get_cart(u)
    \/ \E prod \in ProductIds, q \in Qtys : add_item(u, prod, q)
    \/ \E item_id \in ItemIds, q \in Qtys : update_item(u, item_id, q)
    \/ \E item_id \in ItemIds : remove_item(u, item_id)
    \/ clear_cart(u)

\* C15: for a user who has no cart yet, the first cart access or mutation
\* (get_cart, add_item, update_item, remove_item, clear) creates the user's
\* cart.
C15_CartCreatedLazily ==
    [][\A u \in Users :
          (~HasCart(u) /\ CartCall(u)) => \E c \in carts' : c.user_id = u
      ]_vars

\* C16: remove_item with an id that is no line of the user's cart (also when
\* the cart is empty) fails with NotFound and changes no line; with the id of
\* a line of the cart it deletes exactly that line (stated for the calls that
\* get past the lookup of the user).
C16_RemoveItem ==
    [][\A u \in Users, item_id \in ItemIds :
          LET item == LineOfUser(u, item_id)
          IN  (remove_item(u, item_id) /\ GetOrCreateFound(u)) =>
                 IF item = NoLine
                 THEN last'.result = "NotFound" /\ cart_items' = cart_items
                 ELSE cart_items' = cart_items \ {item}
      ]_vars

\* C17: update_item and remove_item called by user a with the id of a line
\* of user b's cart fail with NotFound and leave b's cart lines unchanged.
C17_OtherUsersLine ==
    [][\A a, b \in Users, item_id \in ItemIds :
          (/\ a # b
           /\ LineOfUser(b, item_id) # NoLine
           /\ \/ remove_item(a, item_id)
              \/ \E q \in Qtys : update_item(a, item_id, q))
          => /\ last'.result = "NotFound"
             /\ {i \in cart_items' : i.cart_id = CartOfUser(b).id}
                   = ItemsOfUser(b)
      ]_vars

\* C18: clear deletes every line of the user's cart and leaves the cart row
\* (same id and user_id) in place; it changes no line of another cart, no
\* product and no order.
C18_Clear ==
    [][\A u \in Users :
          (clear_cart(u) /\ HasCart(u)) =>
             LET cart == CartOfUser(u)
             IN  /\ \E c \in carts' : c.id = cart.id /\ c.user_id = u
                 /\ ~\E i \in cart_items' : i.cart_id = cart.id
                 /\ cart_items' = {i \in cart_items : i.cart_id # cart.id}
                 /\ stock' = stock /\ price' = price /\ orders' = orders
      ]_vars

\* a cart was cleared while another user's cart holds a line
C18_Witness ==
    /\ last.op = "clear_cart"
    /\ last.result = "ok"
    /\ \E u, v \in Users :
          /\ HasCart(u) /\ ItemsOfUser(u) = {}
          /\ ItemsOfUser(v) # {}

\* C19: when checkout is called without a billing_address_id, the created
\* order's billing_address_id equals its shipping_address_id, the address the
\* request named.
C19_BillingDefaultsToShipping ==
    [][/\ \A p \in Procs, u \in Users, a \in AddressIds :
             (begin_create_order(p, u, a, None) /\ pc'[p] = "loop")
                => (sess'[p].data_billing = None /\ sess'[p].shipping = a)
       /\ \A p \in Procs :
             (Committing(p) /\ sess[p].data_billing = None)
                => LET o == orders'[Len(orders')]
                   IN  /\ Len(orders') = Len(orders) + 1
                       /\ o.shipping_address_id = sess[p].shipping
                       /\ o.billing_address_id = o.shipping_address_id
      ]_vars

\* an order of user 1 created without a billing address and shipped to the
\* second of the user's addresses
C19_Witness ==
    \E p \in Procs :
        /\ pc[p] = "ok"
        /\ sess[p].data_billing = None
        /\ orders[sess[p].order].shipping_address_id = 4
        /\ orders[sess[p].order].billing_address_id = 4
        /\ orders[sess[p].order].items # <<>>

\* the addresses table has a row with this id and it is the user's
OwnAddress(u, a) == \E r \in AddressRows : r = a /\ AddressUser(r) = u

\* C20: a checkout whose shipping address, or whose supplied billing address,
\* does not exist or belongs to another user fails with a not-found error,
\* creates no order and changes no stock and no cart line; so the shipping
\* and billing addresses of every order belong to the order's user.
C20_AddressesBelongToUser ==
    [][/\ \A p \in Procs, u \in Users, a \in AddressIds,
            b \in AddressIds \cup {None} :
             (/\ begin_create_order(p, u, a, b)
              /\ ~OwnAddress(u, a) \/ (b # None /\ ~OwnAddress(u, b)))
                => /\ pc'[p] \in {"NotFound", "NotFoundAddress"}
                   /\ orders' = orders
                   /\ stock' = stock
                   /\ cart_items' = cart_items
       /\ \A k \in 1..Len(orders') :
             /\ OwnAddress(orders'[k].user_id, orders'[k].shipping_address_id)
             /\ OwnAddress(orders'[k].user_id, orders'[k].billing_address_id)
      ]_vars

\* a checkout of a cart with lines was refused because of its addresses
C20_Witness ==
    \E p \in Procs :
        /\ pc[p] = "NotFoundAddress"
        /\ ItemsOfUser(sess[p].user) # {}
        /\ \E x \in Products : stock[x] > 0

\* C21: a cart line's unit_price is the product's price when the line was
\* first added and no later step changes it (a price update, an update_item,
\* an add_item of more of the same product); checkout copies the lines'
\* unit prices, not the product's current price, into the order lines.
C21_UnitPriceSnapshot ==
    [][/\ \A j \in cart_items' :
             IF \E i \in cart_items : i.id = j.id
             THEN \A i \in cart_items : i.id = j.id => j.unit_price = i.unit_price
             ELSE j.unit_price = price[j.product_id]
       /\ \A p \in Procs :
             (pc[p] # "loop" /\ pc'[p] = "loop")
                => \A k \in 1..Len(sess'[p].items) : sess'[p].items[k] \in cart_items
       /\ \A p \in Procs :
             Committing(p) =>
                LET o == orders'[Len(orders')]
                IN  /\ Len(o.items) = Len(sess[p].items)
                    /\ \A k \in 1..Len(o.items) :
                          o.items[k].unit_price = sess[p].items[k].unit_price
      ]_vars

\* the price of a product changed after it was put in the cart: the cart
\* line and the order line made from it both keep the price of that time
C21_Witness ==
    \E p \in Procs, i \in cart_items :
        /\ pc[p] = "ok"
        /\ i.unit_price # price[i.product_id]
        /\ \E k \in 1..Len(LinesOfOrder(sess[p].order)) :
              /\ LinesOfOrder(sess[p].order)[k].product_id = i.product_id
              /\ LinesOfOrder(sess[p].order)[k].unit_price = i.unit_price

\* C22: signing up with an email that a registered user already has is
\* rejected with ConflictError and creates no user, and at no time do two
\* users rows share an email.
C22_DuplicateEmailRejected ==
    [][/\ \A a \in users', b \in users' : a.email = b.email => a = b
       /\ \A e \in Emails, pw \in Passwords :
             (register_user(e, pw) /\ \E r \in users : r.email = e)
                => (last'.result = "ConflictError" /\ users' = users)
      ]_vars

C22_Witness ==
    /\ last.op = "register_user"
    /\ last.result = "ConflictError"
    /\ Cardinality({r.email : r \in users}) = Cardinality(users)

C24_ChangePassword ==
    [][\A u \in Users, cur \in Passwords, new \in Passwords, cnf \in Passwords,
          s1 \in Salts, s2 \in Salts :
          change_user_password(u, cur, new, cnf, s1, s2) =>
             \A user \in users : user.id = u =>
                /\ (verify_password(cur, user.password_hash) /\ new = cnf)
                      => /\ last'.result = "ok"
                         /\ \E r \in users' :
                               /\ r.id = u
                               /\ r.email = user.email
                               /\ verify_password(new, r.password_hash)
                /\ ~verify_password(cur, user.password_hash)
                      => (last'.result # "ok" /\ users' = users)
      ]_vars

\* C25: within one checkout no product's stock is decremented, not even in
\* the session's uncommitted objects, before every cart line has passed the
\* stock check: while a line is still to be checked after this one, checking
\* a line leaves every product the session holds at the stock it was read with.
C25_ValidateBeforeDecrement ==
    [][\A p \in Procs :
          (validate_line(p) /\ sess[p].i < Len(sess[p].items))
             => \A x \in Products :
                   \/ sess'[p].local[x] = Unread
                   \/ sess'[p].local[x] = Loaded(sess[p].local, x)
      ]_vars

\* C26: every order is created with status pending, every status change
\* follows an edge of pending -> paid -> shipped -> delivered, with cancelled
\* reachable only from pending or paid, and a delivered or cancelled order
\* never changes status again.
C26_StatusGraph ==
    [][/\ \A k \in 1..Len(orders') :
             k > Len(orders) => orders'[k].status = "pending"
       /\ \A k \in 1..Len(orders) :
             orders'[k].status # orders[k].status =>
                <<orders[k].status, orders'[k].status>> \in
                   {<<"pending", "paid">>, <<"paid", "shipped">>,
                    <<"shipped", "delivered">>, <<"pending", "cancelled">>,
                    <<"paid", "cancelled">>}
      ]_vars

\* C27: update_order_status changes only the status of the one addressed
\* order: every product's stock and price, every cart and cart line, every
\* other order, and the addressed order's line items and total_amount stay
\* as they were, also when the new status is cancelled.
C27_StatusChangeOnly ==
    [][\A u \in Users, o \in OrderIds, st \in OrderStatus :
          update_order_status(u, o, st) =>
             /\ stock' = stock
             /\ price' = price
             /\ carts' = carts
             /\ cart_items' = cart_items
             /\ Len(orders') = Len(orders)
             /\ \A k \in 1..Len(orders) :
                   IF k = o /\ OrderFound(u, o)
                   THEN orders'[k] = [orders[k] EXCEPT !.status = st]
                   ELSE orders'[k] = orders[k]
      ]_vars

C27_Witness ==
    /\ last = Outcome("update_order_status", "ok", 0)
    /\ \E k \in 1..Len(orders) :
          /\ orders[k].status = "cancelled"
          /\ Len(orders[k].items) > 0
          /\ orders[k].total_amount > 0
    /\ \E x \in Products : stock[x] < MaxStock

\* C28: get_cart, add_item, update_item, remove_item and clear never change
\* any product's stock, whether they succeed or fail, and among the cart and
\* order handlers a stock only goes down in the step that commits a checkout.
C28_CartOpsKeepStock ==
    [][/\ \A u \in Users :
             \/ stock' = stock
             \/ ~(\/ get_cart(u)
                  \/ clear_cart(u)
                  \/ \E prod \in ProductIds, q \in Qtys : add_item(u, prod, q)
                  \/ \E i \in ItemIds, q \in Qtys \cup {None} : update_item(u, i, q)
                  \/ \E i \in ItemIds : remove_item(u, i))
       /\ (\E x \in Products : stock'[x] < stock[x])
             => \E p \in Procs : Committing(p)
      ]_vars

C28_Witness ==
    /\ last.op \in {"add_item", "update_item", "remove_item", "clear_cart", "get_cart"}
    /\ last.result = "ok"
    /\ cart_items # {}
    /\ Len(orders) > 0
    /\ \E x \in Products : stock[x] = MaxStock

\* C29: one filled cart yields at most one order. Once a user has an order
\* with lines and has added nothing since, a further checkout of that user is
\* turned away as EmptyCart: it does not get to the stock checks with cart
\* lines in hand, creates no second order and decrements no stock.
C29_OneOrderPerFilledCart ==
    [][\A p \in Procs :
          (\E k \in 1..Len(orders) :
              /\ orders[k].user_id = sess'[p].user
              /\ Len(orders[k].items) > 0)
          => /\ ~(pc[p] # "loop" /\ pc'[p] = "loop")
             /\ ~Committing(p)
             /\ (pc[p] = "loop" => stock' = stock)
      ]_vars

\* C30: once logout has put an access token's jti on the blocklist, every
\* later request bearing that token is rejected as revoked by every
\* token-guarded route; a token whose jti is not on the blocklist is judged by
\* its kind alone; a successful logout adds exactly the jti of its token, and
\* the blocklist only grows.
C30_RevokedTokenRejected ==
    [][/\ token_blocklist \subseteq token_blocklist'
       /\ \A t \in tokens :
             /\ (revoke_token(t) /\ last'.result = "ok")
                   => token_blocklist' = token_blocklist \cup {t.jti}
             /\ (t.jti \in token_blocklist /\ get_my_account(t))
                   => last'.result = "Token has been revoked."
             /\ (t.jti \in token_blocklist /\ revoke_token(t))
                   => last'.result = "Token has been revoked."
             /\ (t.jti \in token_blocklist /\ refresh_token(t))
                   => (last'.result = "Token has been revoked." /\ tokens' = tokens)
             /\ (t.jti \notin token_blocklist /\ get_my_account(t))
                   => last'.result = AccessTokenBearer(t)
             /\ (t.jti \notin token_blocklist /\ refresh_token(t))
                   => last'.result = RefreshTokenBearer(t)
      ]_vars

C30_Witness ==
    \E t \in tokens, o \in tokens :
       /\ t.jti \in token_blocklist
       /\ last = Outcome("get_my_account", "Token has been revoked.", t.jti)
       /\ ~o.refresh
       /\ o.jti \notin token_blocklist

=============================================================================
